---- MODULE Spec2Model ----
(***************************************************************************)
(* LongGuide: the guideline synthesis engine.                              *)
(*   LLMClient                     src/src/longguide/llm_client.py         *)
(*   MetricsGuidelines             src/longguide/guidelines.py             *)
(*   OutputConstraintsGuidelines   src/longguide/guidelines.py             *)
(* Each component is a state machine of its own (SpecGateway,              *)
(* SpecDiscovery, SpecJudge, SpecOcg) over one set of variables; the       *)
(* variables a component does not use keep their initial value.            *)
(***************************************************************************)
EXTENDS Integers, Sequences, FiniteSets, TLC

VARIABLES
    \* ---- LLMClient (the gateway) ----
    gpc,            \* "new" | "idle" | "attempting" | "ctor_raised"
    model_name,     \* self.model_name, a sequence of characters
    provider,       \* self.provider
    client,         \* self.client: which SDK client object was built
    setupFailed,    \* history: the bedrock client could not be built in __init__
    max_retries,    \* parameter of the running (or last) generate call
    attempt,        \* loop variable of generate
    outcomes,       \* history: outcome of every provider attempt of this call
    sleeps,         \* history: argument of every time.sleep of this call
    dispatched,     \* history: provider every attempt of this call was sent to
    ret,            \* value the last generate call returned
    calls,          \* number of generate calls that have returned
    totalAttempts,  \* history: provider calls made by all generate calls so far
    \* ---- the caller's data ----
    validation_data,     \* the caller's list of items (equal items are equal dicts)
    \* ---- MetricsGuidelines.generate_metrics (discovery) ----
    dpc,                 \* "idle" | "sample" | "collect" | "returned" | "raised"
    batch_size,
    num_iterations,
    iter_valid_data,     \* the working pool: positions of validation_data, in order
    collected_metrics,   \* the accumulated set of decoded values
    round,               \* rounds finished
    sampled,             \* history: per round, the set of positions random.sample drew
    dcalls,              \* history: llm_client.generate calls issued by discovery
    dresult,             \* the list generate_metrics returned
    lastNames,           \* history: the last round's response was a list of strings
    allFailed,           \* history: no round's response had a block that decoded
    \* ---- MetricsGuidelines.generate_llmjudge_scores (aggregation) ----
    jpc,                 \* "idle" | "loop" | "returned" | "raised"
    jmetrics,            \* the collected_metrics argument
    mc_collected_scores, \* the running totals
    valid_update_cnt,
    jpos,                \* position of the next item of the for loop
    jcalls,              \* history: llm_client.generate calls issued by the aggregator
    jresult,             \* the mapping returned; a value is the fraction num/den
    validCnt,            \* history: responses handled without an exception
    validSum,            \* history: per metric, sum of the scores of those responses
    validGave,           \* history: per metric, how many of those responses scored it
    shScores,            \* history: totals had every response carried requested keys only
    shCnt,               \* history: counter of the same
    extraSeen,           \* history: a handled response carried a key not requested
    badScoreSeen,        \* history: a response carried a score that is no integer
    lastRaised,          \* history: handling the last item raised an exception
    \* ---- OutputConstraintsGuidelines ----
    opc,                 \* "idle" | "loop" | "returned" | "raised" | "formatted"
    opos,                \* position of the next item of the for loop
    sentence_counts,
    token_counts,
    constraints,         \* the dictionary generate_output_constraints returned
    formatted,           \* the six numbers format_ocg_constraints put in the sentence
    \* ---- get_guidelines of MetricsGuidelines / OutputConstraintsGuidelines ----
    target,              \* the class whose get_guidelines is called
    ppc,                 \* "idle", "running", "returned", "raised"
    arg_none,            \* the call passes no list: validation_data is None
    orig_data,           \* history: the caller's list as it was before any call
    presult,             \* the string get_guidelines returned
    pcalls               \* gateway calls made by get_guidelines itself (line 125)

gvars == <<gpc, model_name, provider, client, setupFailed, max_retries, attempt,
           outcomes, sleeps, dispatched, ret, calls,
           totalAttempts>>

dvars == <<dpc, batch_size, num_iterations, iter_valid_data, collected_metrics,
           round, sampled, dcalls, dresult, lastNames, allFailed>>

jvars == <<jpc, jmetrics, mc_collected_scores, valid_update_cnt, jpos, jcalls, jresult,
           validCnt, validSum, validGave, shScores, shCnt, extraSeen, badScoreSeen,
           lastRaised>>

ovars == <<opc, opos, sentence_counts, token_counts, constraints, formatted>>

pvars == <<target, ppc, arg_none, orig_data, presult, pcalls>>

vars == <<gvars, validation_data, dvars, jvars, ovars, pvars>>

notGateway == <<validation_data, dvars, jvars, ovars, pvars>>

----------------------------------------------------------------------------
(* Bounds *)

MaxRetries == 3
MaxCalls == 2

----------------------------------------------------------------------------
(* Generic helpers *)

RECURSIVE SumSeq(_)
SumSeq(s) == IF s = <<>> THEN 0 ELSE Head(s) + SumSeq(Tail(s))

RECURSIVE Pow2(_)
Pow2(n) == IF n <= 0 THEN 1 ELSE 2 * Pow2(n - 1)

----------------------------------------------------------------------------
(* LLMClient *)

ModelNames ==
    { <<"g", "p", "t", "4">>,
      <<"G", "P", "T">>,
      <<"c", "l", "a", "u", "d", "e">>,
      <<"C", "l", "a", "u", "d", "e">>,
      <<"l", "l", "m">> }

Texts == {"text1", "text2"}

\* str.lower(), on the characters the model names use
LowerChar(c) ==
    CASE c = "G" -> "g"
      [] c = "P" -> "p"
      [] c = "T" -> "t"
      [] c = "C" -> "c"
      [] OTHER -> c

Lower(s) == [i \in 1..Len(s) |-> LowerChar(s[i])]

\* sub in s
Contains(sub, s) ==
    \E i \in 0..(Len(s) - Len(sub)) :
        \A k \in 1..Len(sub) : s[i + k] = sub[k]

\* _detect_provider
DetectProvider(name) ==
    IF Contains(<<"g", "p", "t">>, Lower(name)) THEN "openai"
    ELSE IF Contains(<<"c", "l", "a", "u", "d", "e">>, Lower(name)) THEN "claude"
    ELSE "openai"

FallbackProviderKept(p) == p

\* llm_client.py:45, the provider after the bedrock client could not be built
FallbackProvider(p) == "openai"

\* _setup_client: the (provider, client) it leaves, or that it raised
SetupClient(p, bedrockOk, openaiOk) ==
    IF p = "openai"
    THEN IF openaiOk
         THEN [raised |-> FALSE, provider |-> p, client |-> "openai"]
         ELSE [raised |-> TRUE, provider |-> p, client |-> "none"]
    ELSE IF bedrockOk
         THEN [raised |-> FALSE, provider |-> p, client |-> "bedrock"]
         ELSE IF openaiOk
              THEN [raised |-> FALSE, provider |-> FallbackProvider(p), client |-> "openai"]
              ELSE [raised |-> TRUE, provider |-> FallbackProvider(p), client |-> "none"]

\* __init__
Construct ==
    /\ gpc = "new"
    /\ \E name \in ModelNames, bedrockOk \in BOOLEAN, openaiOk \in BOOLEAN :
         LET p == DetectProvider(name)
             s == SetupClient(p, bedrockOk, openaiOk)
         IN /\ model_name' = name
            /\ provider' = s.provider
            /\ client' = s.client
            /\ setupFailed' = (p = "claude" /\ ~bedrockOk)
            /\ gpc' = IF s.raised THEN "ctor_raised" ELSE "idle"
    /\ UNCHANGED <<max_retries, attempt, outcomes, sleeps, dispatched, ret, calls,
                   totalAttempts>>
    /\ UNCHANGED notGateway

FirstAttemptCarried(previous) == previous

\* llm_client.py:62, range(max_retries + 1) starts at 0 whatever value the
\* loop variable of an earlier call ended with
FirstAttempt(previous) == 0

\* generate, entry: for attempt in range(max_retries + 1)
GenerateBegin ==
    /\ gpc = "idle"
    /\ calls < MaxCalls
    /\ \E r \in (-1)..MaxRetries :
         /\ max_retries' = r
         /\ attempt' = FirstAttempt(attempt)
         /\ outcomes' = <<>>
         /\ sleeps' = <<>>
         /\ dispatched' = <<>>
         /\ IF r + 1 <= 0
            THEN /\ ret' = ""                      \* line 76
                 /\ calls' = calls + 1
                 /\ gpc' = "idle"
            ELSE /\ ret' = "none"
                 /\ calls' = calls
                 /\ gpc' = "attempting"
    /\ UNCHANGED <<model_name, provider, client, setupFailed, totalAttempts>>
    /\ UNCHANGED notGateway

\* generate, lines 64-67: which provider call the attempt makes
Dispatch(p) == IF p = "openai" THEN "openai" ELSE "claude"

BackoffLinear(a) == 2 * a

\* llm_client.py:71, the argument of time.sleep
Backoff(a) == Pow2(a)

\* llm_client.py:70
MoreAttempts(a, r) == a < r

AttemptReturnsIgnored ==
    /\ gpc = "attempting"
    /\ \E text \in Texts : outcomes' = Append(outcomes, text)
    /\ dispatched' = Append(dispatched, Dispatch(provider))
    /\ totalAttempts' = totalAttempts + 1
    /\ IF attempt < max_retries
       THEN /\ attempt' = attempt + 1
            /\ UNCHANGED <<ret, calls, gpc>>
       ELSE /\ ret' = ""
            /\ calls' = calls + 1
            /\ gpc' = "idle"
            /\ UNCHANGED attempt
    /\ UNCHANGED <<model_name, provider, client, setupFailed, max_retries, sleeps>>
    /\ UNCHANGED notGateway

\* one loop iteration whose provider call returns
AttemptReturns ==
    /\ gpc = "attempting"
    /\ \E text \in Texts :
         /\ ret' = text
         /\ outcomes' = Append(outcomes, text)
    /\ dispatched' = Append(dispatched, Dispatch(provider))
    /\ totalAttempts' = totalAttempts + 1
    /\ calls' = calls + 1
    /\ gpc' = "idle"
    /\ UNCHANGED <<model_name, provider, client, setupFailed, max_retries, attempt, sleeps>>
    /\ UNCHANGED notGateway

\* one loop iteration whose provider call raises
AttemptRaises ==
    /\ gpc = "attempting"
    /\ outcomes' = Append(outcomes, "raise")
    /\ dispatched' = Append(dispatched, Dispatch(provider))
    /\ totalAttempts' = totalAttempts + 1
    /\ IF MoreAttempts(attempt, max_retries)
       THEN /\ sleeps' = Append(sleeps, Backoff(attempt))
            /\ IF attempt + 1 < max_retries + 1
               THEN /\ attempt' = attempt + 1
                    /\ UNCHANGED <<ret, calls, gpc>>
               ELSE /\ ret' = ""                   \* the loop ends, line 76
                    /\ calls' = calls + 1
                    /\ gpc' = "idle"
                    /\ UNCHANGED attempt
       ELSE /\ ret' = ""                           \* line 74
            /\ calls' = calls + 1
            /\ gpc' = "idle"
            /\ UNCHANGED <<attempt, sleeps>>
    /\ UNCHANGED <<model_name, provider, client, setupFailed, max_retries>>
    /\ UNCHANGED notGateway

----------------------------------------------------------------------------
(* Decoded JSON values.  A value is a record [t, v]: a string, a number, or *)
(* an unhashable value (a list or an object).                               *)

JStr(s) == [t |-> "str", v |-> s]
JNum == [t |-> "num", v |-> "5"]
JUnhashable == [t |-> "list", v |-> "[]"]

\* PRE_DEFINED_METRICS: the names of the catalog the model uses
PRE_DEFINED_METRICS == {"Accuracy", "Clarity"}

\* the strings a response may carry, in ascending (code point) order
StringOrder == <<"Accuracy", "Clarity", "Zest">>

Strings == {StringOrder[i] : i \in 1..Len(StringOrder)}

Rank(s) == CHOOSE i \in 1..Len(StringOrder) : StringOrder[i] = s

\* a < b of two decoded values of the same type
Less(a, b) == a.t = "str" /\ b.t = "str" /\ Rank(a.v) < Rank(b.v)

\* a < b raises TypeError: str against number
Incomparable(a, b) == a.t # b.t

----------------------------------------------------------------------------
(* MetricsGuidelines.generate_metrics *)

MaxData == 3
MaxBatch == 2
MaxIter == 2
MaxListLen == 2

Items == {"a", "b"}

DataLists == UNION {[1..n -> Items] : n \in 0..MaxData}

DElems == {JStr(s) : s \in Strings} \cup {JNum, JUnhashable}

\* what the text llm_client.generate returned is to lines 98-101:
\*   noblock      re.search finds no fenced block (the empty string included)
\*   undecodable  json.loads raises
\*   scalar       json.loads gives a number, true, false or null
\*   list         json.loads gives a list
\*   dict         json.loads gives an object (iterating it gives its keys)
DResponses ==
    {[kind |-> k, elems |-> <<>>] : k \in {"noblock", "undecodable", "scalar"}}
    \cup {[kind |-> "list", elems |-> e] :
             e \in UNION {[1..n -> DElems] : n \in 0..MaxListLen}}
    \cup {[kind |-> "dict", elems |-> <<JStr(s)>>] : s \in Strings}

\* the response is what the prompt of lines 76-91 asks for: a fenced block
\* that decodes to a list of strings
ListOfNames(resp) ==
    resp.kind = "list" /\ \A i \in 1..Len(resp.elems) : resp.elems[i].t = "str"

\* set.update(iterable): adds the elements in order; an unhashable element
\* raises TypeError, the elements before it stay added
RECURSIVE SetUpdate(_, _)
SetUpdate(s, elems) ==
    IF elems = <<>> THEN s
    ELSE IF Head(elems).t = "list" THEN s
    ELSE SetUpdate(s \cup {Head(elems)}, Tail(elems))

\* lines 94-103: the set after the round's response was handled
CollectRound(s, resp) ==
    IF resp.kind \in {"list", "dict"} THEN SetUpdate(s, resp.elems) ELSE s

\* line 74: the pool without every element equal to a selected one
RemoveSelected(pool, data, sel) ==
    SelectSeq(pool, LAMBDA p : \A i \in sel : data[p] # data[pool[i]])

\* list.sort() raises TypeError
SortRaises(s) == \E a \in s, b \in s : Incomparable(a, b)

\* lines 105-106: list(collected_metrics) sorted
SortedSeq(s) ==
    CHOOSE q \in [1..Cardinality(s) -> s] :
        /\ \A i, j \in 1..Cardinality(s) : i # j => q[i] # q[j]
        /\ \A i \in 1..(Cardinality(s) - 1) : ~Less(q[i + 1], q[i])

\* generate_metrics is called
GenerateMetricsBegin ==
    /\ dpc = "idle"
    /\ \E b \in 0..MaxBatch, n \in 0..MaxIter :
         /\ batch_size' = b
         /\ num_iterations' = n
    /\ iter_valid_data' = [i \in 1..Len(validation_data) |-> i]     \* line 69
    /\ collected_metrics' = {}                                       \* line 70
    /\ round' = 0
    /\ sampled' = <<>>
    /\ dcalls' = 0
    /\ dpc' = "sample"
    /\ lastNames' = FALSE
    /\ allFailed' = TRUE
    /\ UNCHANGED <<gvars, pvars, validation_data, dresult, jvars, ovars>>

\* lines 73-74 of one round: random.sample, then the removal
RoundSample ==
    /\ dpc = "sample"
    /\ round < num_iterations
    /\ batch_size <= Len(iter_valid_data)
    /\ \E sel \in SUBSET (1..Len(iter_valid_data)) :
         /\ Cardinality(sel) = batch_size
         /\ sampled' = Append(sampled, {iter_valid_data[i] : i \in sel})
         /\ iter_valid_data' = RemoveSelected(iter_valid_data, validation_data, sel)
    /\ dpc' = "collect"
    /\ UNCHANGED <<jvars, ovars>>
    /\ UNCHANGED <<gvars, pvars, validation_data, batch_size, num_iterations,
                   collected_metrics, round, dcalls, dresult, lastNames, allFailed>>

\* line 73: random.sample raises ValueError, the sample is larger than the pool
RoundSampleRaises ==
    /\ dpc = "sample"
    /\ round < num_iterations
    /\ batch_size > Len(iter_valid_data)
    /\ dpc' = "raised"
    /\ UNCHANGED <<jvars, ovars>>
    /\ UNCHANGED <<gvars, pvars, validation_data, batch_size, num_iterations, iter_valid_data,
                   collected_metrics, round, sampled, dcalls, dresult, lastNames,
                   allFailed>>

\* lines 93-103 of one round: the gateway call, and the handling of the text
\* `resp` it returned
RoundCollectOf(resp) ==
    /\ dpc = "collect"
    /\ collected_metrics' = CollectRound(collected_metrics, resp)
    /\ lastNames' = ListOfNames(resp)
    /\ allFailed' = (allFailed /\ resp.kind \in {"noblock", "undecodable"})
    /\ dcalls' = dcalls + 1
    /\ round' = round + 1
    /\ dpc' = "sample"
    /\ UNCHANGED <<jvars, ovars>>
    /\ UNCHANGED <<gvars, pvars, validation_data, batch_size, num_iterations,
                   iter_valid_data, sampled, dresult>>

\* one round's gateway call, for every text the gateway can return
RoundCollect == \E resp \in DResponses : RoundCollectOf(resp)

\* lines 105-107: the loop is over
GenerateMetricsReturn ==
    /\ dpc = "sample"
    /\ round >= num_iterations
    /\ IF SortRaises(collected_metrics)
       THEN /\ dpc' = "raised"
            /\ UNCHANGED dresult
       ELSE /\ dpc' = "returned"
            /\ dresult' = SortedSeq(collected_metrics)
    /\ UNCHANGED <<jvars, ovars>>
    /\ UNCHANGED <<gvars, pvars, validation_data, batch_size, num_iterations, iter_valid_data,
                   collected_metrics, round, sampled, dcalls, lastNames, allFailed>>

----------------------------------------------------------------------------
(* MetricsGuidelines.generate_llmjudge_scores *)

MaxEntries == 2

JInt(n) == [t |-> "int", n |-> n]
JBad == [t |-> "str", n |-> 0]          \* a value 0 + value raises TypeError on
JNoIndex == [t |-> "noindex", n |-> 0]  \* the response is a list: eva_outcome[metric] raises

Scores == {1, 5}

MetricLists == {<<>>, <<"Accuracy">>, <<"Accuracy", "Clarity">>}

\* the validation lists the aggregator is run on: a, b, a, b, ... of every length
JudgeLists == {[i \in 1..n |-> IF i % 2 = 1 THEN "a" ELSE "b"] : n \in 0..MaxData}

JEntries == {[k |-> s, v |-> x] : s \in Strings, x \in {JInt(n) : n \in Scores} \cup {JBad}}

DistinctKeys(es) == \A i, j \in 1..Len(es) : i # j => es[i].k # es[j].k

\* what the text llm_client.generate returned is to lines 173-179; an object
\* is the sequence of its (key, value) pairs in iteration order
JResponses ==
    {[kind |-> k, entries |-> <<>>] : k \in {"noblock", "undecodable", "scalar"}}
    \cup {[kind |-> "dict", entries |-> e] :
             e \in {es \in UNION {[1..n -> JEntries] : n \in 0..MaxEntries} : DistinctKeys(es)}}
    \cup {[kind |-> "list", entries |-> <<[k |-> s, v |-> JNoIndex]>>] : s \in Strings}

Range(s) == {s[i] : i \in 1..Len(s)}

Resamples(s) == [1..Len(s) -> Range(s)]

\* random.shuffle: every order of the list
Shuffles(s) ==
    {[i \in 1..Len(s) |-> s[f[i]]] :
        f \in {g \in [1..Len(s) -> 1..Len(s)] : \A i, j \in 1..Len(s) : i # j => g[i] # g[j]}}

InTargetSetAlways(metric, totals) == TRUE

\* line 177: if metric in mc_collected_scores
InTargetSet(metric, totals) == metric \in DOMAIN totals

\* lines 176-178: the totals after the loop over the response's keys, and
\* whether the loop raised (KeyError or TypeError); what was added before
\* the exception stays added
RECURSIVE AddScores(_, _)
AddScores(totals, entries) ==
    IF entries = <<>> THEN [raised |-> FALSE, totals |-> totals]
    ELSE LET e == Head(entries) IN
         IF InTargetSet(e.k, totals)
         THEN IF e.k \notin DOMAIN totals \/ e.v.t # "int"
              THEN [raised |-> TRUE, totals |-> totals]
              ELSE AddScores([totals EXCEPT ![e.k] = @ + e.v.n], Tail(entries))
         ELSE AddScores(totals, Tail(entries))

\* lines 168-181: the totals and the counter after one item
ScoreItem(totals, cnt, resp) ==
    IF resp.kind \in {"dict", "list"}
    THEN LET r == AddScores(totals, resp.entries) IN
         [totals |-> r.totals, cnt |-> IF r.raised THEN cnt ELSE cnt + 1]
    ELSE [totals |-> totals, cnt |-> cnt]

\* lines 168-181: handling the item's response ends in the except clause
ItemRaises(totals, resp) ==
    \/ resp.kind \in {"undecodable", "scalar"}
    \/ resp.kind \in {"dict", "list"} /\ AddScores(totals, resp.entries).raised

HasValidAlways(cnt) == cnt >= 0

\* line 183
HasValid(cnt) == cnt >= 1

\* line 188: the value of every metric when no response was valid
DefaultScore == 5

\* lines 183-190: the mapping returned, or that the division raised
Finalize(totals, cnt) ==
    IF HasValid(cnt)
    THEN IF cnt = 0
         THEN [raised |-> TRUE, profile |-> totals]
         ELSE [raised |-> FALSE,
               profile |-> [m \in DOMAIN totals |-> [num |-> totals[m], den |-> cnt]]]
    ELSE [raised |-> FALSE,
          profile |-> [m \in DOMAIN totals |-> [num |-> DefaultScore, den |-> 1]]]

\* the response with the keys outside `metrics` taken out
OnlyRequested(resp, metrics) ==
    [resp EXCEPT !.entries = SelectSeq(resp.entries, LAMBDA e : e.k \in metrics)]

\* the response is handled to the end: it has a decodable block and no
\* requested key of it carries a value that cannot be added
HandledWithoutException(resp, metrics) ==
    /\ resp.kind \in {"dict", "list"}
    /\ \A i \in 1..Len(resp.entries) :
         resp.entries[i].k \in metrics => resp.entries[i].v.t = "int"

ScoreOf(resp, m) ==
    IF \E i \in 1..Len(resp.entries) : resp.entries[i].k = m
    THEN (CHOOSE e \in Range(resp.entries) : e.k = m).v.n
    ELSE 0

\* generate_llmjudge_scores is called with collected_metrics = ms: lines 142-148
JudgeBeginWith(ms) ==
    /\ jpc = "idle"
    /\ jmetrics' = ms
    /\ mc_collected_scores' = [m \in Range(ms) |-> 0]
    /\ validSum' = [m \in Range(ms) |-> 0]
    /\ validGave' = [m \in Range(ms) |-> 0]
    /\ shScores' = [m \in Range(ms) |-> 0]
    /\ validation_data' \in Shuffles(validation_data)
    /\ valid_update_cnt' = 0
    /\ jcalls' = 1                              \* _get_metric_definitions
    /\ jpos' = 1
    /\ validCnt' = 0
    /\ shCnt' = 0
    /\ extraSeen' = FALSE
    /\ badScoreSeen' = FALSE
    /\ lastRaised' = FALSE
    /\ jpc' = "loop"
    /\ UNCHANGED <<gvars, pvars, dvars, jresult, ovars>>

\* generate_llmjudge_scores is called, for every list of metrics
JudgeBegin == \E ms \in MetricLists : JudgeBeginWith(ms)

\* one iteration of the for loop, lines 150-181, the gateway returning `resp`
JudgeItemOf(resp) ==
    /\ jpc = "loop"
    /\ jpos <= Len(validation_data)
    /\ LET r  == ScoreItem(mc_collected_scores, valid_update_cnt, resp)
           ok == HandledWithoutException(resp, Range(jmetrics))
           sh == ScoreItem(shScores, shCnt, OnlyRequested(resp, Range(jmetrics)))
        IN /\ mc_collected_scores' = r.totals
           /\ valid_update_cnt' = r.cnt
           /\ validCnt' = IF ok THEN validCnt + 1 ELSE validCnt
           /\ validSum' = IF ok THEN [m \in DOMAIN validSum |-> validSum[m] + ScoreOf(resp, m)]
                          ELSE validSum
           /\ validGave' = IF ok
                           THEN [m \in DOMAIN validGave |->
                                   IF \E i \in 1..Len(resp.entries) : resp.entries[i].k = m
                                   THEN validGave[m] + 1 ELSE validGave[m]]
                           ELSE validGave
           /\ shScores' = sh.totals
           /\ shCnt' = sh.cnt
           /\ extraSeen' = (extraSeen \/ (ok /\ \E i \in 1..Len(resp.entries) :
                                                  resp.entries[i].k \notin Range(jmetrics)))
           /\ badScoreSeen' = (badScoreSeen \/ (resp.kind = "dict" /\
                                  \E i \in 1..Len(resp.entries) : resp.entries[i].v.t # "int"))
           /\ lastRaised' = ItemRaises(mc_collected_scores, resp)
    /\ jcalls' = jcalls + 1
    /\ jpos' = jpos + 1
    /\ UNCHANGED <<gvars, pvars, validation_data, dvars, jpc, jmetrics, jresult, ovars>>

\* one iteration, for every text the gateway can return
JudgeItem == \E resp \in JResponses : JudgeItemOf(resp)

\* lines 183-190: the loop is over
JudgeReturn ==
    /\ jpc = "loop"
    /\ jpos > Len(validation_data)
    /\ LET f == Finalize(mc_collected_scores, valid_update_cnt) IN
         IF f.raised
         THEN /\ jpc' = "raised"
              /\ UNCHANGED jresult
         ELSE /\ jpc' = "returned"
              /\ jresult' = f.profile
    /\ UNCHANGED <<gvars, pvars, validation_data, dvars, jmetrics, mc_collected_scores,
                   valid_update_cnt, jpos, jcalls, validCnt, validSum, validGave,
                   shScores, shCnt, extraSeen, badScoreSeen, lastRaised, ovars>>

----------------------------------------------------------------------------
(* OutputConstraintsGuidelines *)

MaxOutputs == 3

\* the reference outputs; the tokenizer is a table over them
OcgItems == {"a", "b", "c", "d"}

OcgLists == UNION {[1..n -> OcgItems] : n \in 0..MaxOutputs}

\* count_sentences: len(sent_tokenize(text))
count_sentences(text) ==
    CASE text = "a" -> 2
      [] text = "b" -> 4
      [] text = "c" -> 6
      [] OTHER -> 1

\* count_words: len(word_tokenize(text))
count_words(text) ==
    CASE text = "a" -> 10
      [] text = "b" -> 20
      [] text = "c" -> 30
      [] OTHER -> 7

\* min(list), max(list) of a non-empty list
MinOf(s) == CHOOSE x \in Range(s) : \A y \in Range(s) : x <= y
MaxOf(s) == CHOOSE x \in Range(s) : \A y \in Range(s) : x >= y

MeanFloored(s) == [num |-> SumSeq(s) \div Len(s), den |-> 1]

\* sum(list) / len(list): true division, kept as the fraction num/den
Mean(s) == [num |-> SumSeq(s), den |-> Len(s)]

\* int(x) of a fraction: truncation toward zero
IntOf(x) ==
    IF x.num >= 0 THEN x.num \div x.den ELSE 0 - ((0 - x.num) \div x.den)

\* generate_output_constraints is called: lines 271-272
OcgBegin ==
    /\ opc = "idle"
    /\ sentence_counts' = <<>>
    /\ token_counts' = <<>>
    /\ opos' = 1
    /\ opc' = "loop"
    /\ UNCHANGED <<gvars, pvars, validation_data, dvars, jvars, constraints, formatted>>

\* one iteration of the for loop, lines 274-277
OcgItem ==
    /\ opc = "loop"
    /\ opos <= Len(validation_data)
    /\ sentence_counts' = Append(sentence_counts, count_sentences(validation_data[opos]))
    /\ token_counts' = Append(token_counts, count_words(validation_data[opos]))
    /\ opos' = opos + 1
    /\ UNCHANGED <<gvars, pvars, validation_data, dvars, jvars, opc, constraints, formatted>>

\* lines 279-290; min() of an empty list raises ValueError
OcgReturn ==
    /\ opc = "loop"
    /\ opos > Len(validation_data)
    /\ IF sentence_counts = <<>>
       THEN /\ opc' = "raised"
            /\ UNCHANGED constraints
       ELSE /\ opc' = "returned"
            /\ constraints' =
                 [sentences |-> [min |-> MinOf(sentence_counts),
                                 max |-> MaxOf(sentence_counts),
                                 avg |-> Mean(sentence_counts)],
                  tokens |-> [min |-> MinOf(token_counts),
                              max |-> MaxOf(token_counts),
                              avg |-> Mean(token_counts)]]
    /\ UNCHANGED <<gvars, pvars, validation_data, dvars, jvars, opos, sentence_counts,
                   token_counts, formatted>>

\* format_ocg_constraints, line 313: the numbers in the order of the sentence
OcgFormat ==
    /\ opc = "returned"
    /\ formatted' = << constraints.sentences.min, constraints.sentences.max,
                       constraints.tokens.min, constraints.tokens.max,
                       IntOf(constraints.tokens.avg), IntOf(constraints.sentences.avg) >>
    /\ opc' = "formatted"
    /\ UNCHANGED <<gvars, pvars, validation_data, dvars, jvars, opos, sentence_counts,
                   token_counts, constraints>>

----------------------------------------------------------------------------
(* get_guidelines of MetricsGuidelines and of OutputConstraintsGuidelines *)

MaxPipelineData == 2

\* the lists get_guidelines is called with: a, b, a, ... of every length
PipelineLists ==
    {[i \in 1..n |-> IF i % 2 = 1 THEN "a" ELSE "b"] : n \in 0..MaxPipelineData}

\* the texts the gateway returns to a discovery round of get_guidelines
PipelineDResponses ==
    { [kind |-> "noblock", elems |-> <<>>],
      [kind |-> "list", elems |-> <<JStr("Accuracy")>>],
      [kind |-> "list", elems |-> <<JStr("Clarity"), JStr("Accuracy")>>],
      [kind |-> "list", elems |-> <<JNum>>] }

\* the texts the gateway returns to a judge call of get_guidelines
PipelineJResponses ==
    { [kind |-> "noblock", entries |-> <<>>],
      [kind |-> "dict", entries |-> <<[k |-> "Accuracy", v |-> JInt(5)]>>],
      [kind |-> "dict", entries |-> <<[k |-> "Accuracy", v |-> JInt(1)],
                                      [k |-> "Clarity", v |-> JBad]>>] }

\* the text the gateway returns to the definitions call, as its paragraphs
\* (the parts between "\n\n")
Paragraphs == { <<"">>, <<"intro">>, <<"intro", "bullets">>, <<"intro", "bullets", "outro">> }

DefaultMetricsGuideline == "Focus on accuracy, clarity, and relevance for the task."

DefaultConstraintsGuideline ==
    "Your response should be well-structured and appropriate for the task."

NoDataOnlyNone(none, data) == none

\* lines 111 and 294: `not validation_data`, true of None and of the empty list
NoData(none, data) == none \/ data = <<>>

DiscoveryStarted == dpc # "idle"

\* lines 115-118: generate_llmjudge_scores is called with the list that
\* generate_metrics returned
DiscoveryFinished == dpc = "returned"

\* a decoded value as a key of the aggregator's dictionary
KeyOf(x) == x.v

\* lines 126-127: the second paragraph when the text has a blank line
SecondParagraph(paras) == IF Len(paras) >= 2 THEN paras[2] ELSE paras[1]

\* get_guidelines is called: lines 111-112 and 294-295
GetGuidelinesBegin ==
    /\ ppc = "idle"
    /\ IF NoData(arg_none, validation_data)
       THEN /\ presult' = (IF target = "metrics" THEN DefaultMetricsGuideline
                           ELSE DefaultConstraintsGuideline)
            /\ ppc' = "returned"
       ELSE /\ ppc' = "running"
            /\ UNCHANGED presult
    /\ UNCHANGED <<gvars, validation_data, dvars, jvars, ovars, target, arg_none,
                   orig_data, pcalls>>

\* line 115: the steps of generate_metrics
CollectingMetrics ==
    /\ ppc = "running"
    /\ target = "metrics"
    /\ \/ GenerateMetricsBegin
       \/ RoundSample
       \/ RoundSampleRaises
       \/ \E resp \in PipelineDResponses : RoundCollectOf(resp)
       \/ GenerateMetricsReturn

\* line 118: generate_llmjudge_scores is called
CollectingScoresBegin ==
    /\ ppc = "running"
    /\ target = "metrics"
    /\ DiscoveryFinished
    /\ JudgeBeginWith([i \in 1..Len(dresult) |-> KeyOf(dresult[i])])

\* line 118: the steps of generate_llmjudge_scores
CollectingScores ==
    /\ ppc = "running"
    /\ \/ \E resp \in PipelineJResponses : JudgeItemOf(resp)
       \/ JudgeReturn

\* lines 121-129: str.join raises TypeError on an entry that is no string;
\* else the definitions call and the return
CollectingDefinitions ==
    /\ ppc = "running"
    /\ jpc = "returned"
    /\ IF \E i \in 1..Len(dresult) : dresult[i].t # "str"
       THEN /\ ppc' = "raised"
            /\ UNCHANGED <<presult, pcalls>>
       ELSE /\ pcalls' = pcalls + 1
            /\ \E paras \in Paragraphs : presult' = SecondParagraph(paras)
            /\ ppc' = "returned"
    /\ UNCHANGED <<gvars, validation_data, dvars, jvars, ovars, target, arg_none, orig_data>>

\* lines 298-301: generate_output_constraints, then format_ocg_constraints
ConstraintsSteps ==
    /\ ppc = "running"
    /\ target = "constraints"
    /\ \/ OcgBegin
       \/ OcgItem
       \/ OcgReturn
       \/ OcgFormat

\* line 301: the formatted sentence is returned
ConstraintsReturn ==
    /\ ppc = "running"
    /\ opc = "formatted"
    /\ presult' = "The summary must have ..."
    /\ ppc' = "returned"
    /\ UNCHANGED <<gvars, validation_data, dvars, jvars, ovars, target, arg_none,
                   orig_data, pcalls>>

\* an exception of generate_metrics or generate_llmjudge_scores leaves get_guidelines
Propagate ==
    /\ ppc = "running"
    /\ dpc = "raised" \/ jpc = "raised" \/ opc = "raised"
    /\ ppc' = "raised"
    /\ UNCHANGED <<gvars, validation_data, dvars, jvars, ovars, target, arg_none,
                   orig_data, presult, pcalls>>

GInit ==
    /\ gpc = "new"
    /\ model_name = <<>>
    /\ provider = "none"
    /\ client = "none"
    /\ setupFailed = FALSE
    /\ max_retries = 0
    /\ attempt = 0
    /\ outcomes = <<>>
    /\ sleeps = <<>>
    /\ dispatched = <<>>
    /\ ret = "none"
    /\ calls = 0
    /\ totalAttempts = 0

\* the discovery variables before generate_metrics is called
DIdle ==
    /\ dpc = "idle"
    /\ batch_size = 0
    /\ num_iterations = 0
    /\ iter_valid_data = <<>>
    /\ collected_metrics = {}
    /\ round = 0
    /\ sampled = <<>>
    /\ dcalls = 0
    /\ dresult = <<>>
    /\ lastNames = FALSE
    /\ allFailed = TRUE

\* the aggregator's variables before generate_llmjudge_scores is called
JIdle ==
    /\ jpc = "idle"
    /\ jmetrics = <<>>
    /\ mc_collected_scores = <<>>
    /\ valid_update_cnt = 0
    /\ jpos = 0
    /\ jcalls = 0
    /\ jresult = <<>>
    /\ validCnt = 0
    /\ validSum = <<>>
    /\ validGave = <<>>
    /\ shScores = <<>>
    /\ shCnt = 0
    /\ extraSeen = FALSE
    /\ badScoreSeen = FALSE
    /\ lastRaised = FALSE

\* no get_guidelines call is made: the functions are called directly
PIdle ==
    /\ target = "none"
    /\ ppc = "idle"
    /\ arg_none = FALSE
    /\ orig_data = validation_data
    /\ presult = "none"
    /\ pcalls = 0

\* the statistics variables before generate_output_constraints is called
OIdle ==
    /\ opc = "idle"
    /\ opos = 0
    /\ sentence_counts = <<>>
    /\ token_counts = <<>>
    /\ constraints = <<>>
    /\ formatted = <<>>

InitOcg ==
    /\ GInit
    /\ validation_data \in OcgLists
    /\ DIdle
    /\ JIdle
    /\ OIdle
    /\ PIdle

ONext ==
    \/ OcgBegin
    \/ OcgItem
    \/ OcgReturn
    \/ OcgFormat

InitGateway ==
    /\ GInit
    /\ validation_data = <<>>
    /\ DIdle
    /\ JIdle
    /\ OIdle
    /\ PIdle

InitJudge ==
    /\ GInit
    /\ validation_data \in JudgeLists
    /\ DIdle
    /\ JIdle
    /\ OIdle
    /\ PIdle

JNext ==
    \/ JudgeBegin
    \/ JudgeItem
    \/ JudgeReturn

InitDiscovery ==
    /\ GInit
    /\ validation_data \in DataLists
    /\ DIdle
    /\ JIdle
    /\ OIdle
    /\ PIdle

DNext ==
    \/ GenerateMetricsBegin
    \/ RoundSample
    \/ RoundSampleRaises
    \/ RoundCollect
    \/ GenerateMetricsReturn

\* a get_guidelines call: of either class, with no list, or with a list
Init ==
    /\ GInit
    /\ target \in {"metrics", "constraints"}
    /\ arg_none \in BOOLEAN
    /\ validation_data \in (IF arg_none THEN {<<>>} ELSE PipelineLists)
    /\ orig_data = validation_data
    /\ ppc = "idle"
    /\ presult = "none"
    /\ pcalls = 0
    /\ DIdle
    /\ JIdle
    /\ OIdle

Next ==
    \/ GetGuidelinesBegin
    \/ CollectingMetrics
    \/ CollectingScoresBegin
    \/ CollectingScores
    \/ CollectingDefinitions
    \/ ConstraintsSteps
    \/ ConstraintsReturn
    \/ Propagate

GNext ==
    \/ Construct
    \/ GenerateBegin
    \/ AttemptReturns
    \/ AttemptRaises

SpecGateway == InitGateway /\ [][GNext]_vars

SpecDiscovery == InitDiscovery /\ [][DNext]_vars

SpecJudge == InitJudge /\ [][JNext]_vars

SpecOcg == InitOcg /\ [][ONext]_vars

Spec == Init /\ [][Next]_vars

----------------------------------------------------------------------------
(* Properties of LLMClient, under SpecGateway *)

\* a generate call has returned; the history variables describe that call
CallReturned == gpc = "idle" /\ calls >= 1

AllRaised == \A i \in 1..Len(outcomes) : outcomes[i] = "raise"

\* C1: with max_retries = R >= 0 and a provider call that raises on every
\* attempt, generate makes exactly R + 1 attempts, sleeps 2^k after failed
\* attempt k for k = 0..R-1 only (2^R - 1 in total; 1, 2, 4 for R = 3), does
\* not sleep after the last failed attempt, and returns the empty string.
C1_BackoffSchedule ==
    /\ (gpc = "attempting" /\ AllRaised) =>
          /\ Len(outcomes) = attempt
          /\ attempt <= max_retries
          /\ Len(sleeps) = Len(outcomes)
          /\ \A k \in 1..Len(sleeps) : sleeps[k] = 2 ^ (k - 1)
    /\ (CallReturned /\ max_retries >= 0 /\ AllRaised) =>
          /\ Len(outcomes) = max_retries + 1
          /\ Len(sleeps) = max_retries
          /\ \A k \in 1..Len(sleeps) : sleeps[k] = 2 ^ (k - 1)
          /\ SumSeq(sleeps) = 2 ^ max_retries - 1
          /\ (max_retries = 3 => sleeps = <<1, 2, 4>>)
          /\ ret = ""

C1_Witness ==
    /\ CallReturned
    /\ max_retries = 3
    /\ outcomes = <<"raise", "raise", "raise", "raise">>
    /\ sleeps = <<1, 2, 4>>
    /\ ret = ""

\* C2: whatever the outcomes of the attempts, generate does not raise: it
\* returns the text of the first attempt that succeeds, with no attempt and
\* no sleep after it, or the empty string when all max_retries + 1 attempts
\* fail.
C2_FirstSuccessOrEmpty ==
    /\ gpc \in {"new", "idle", "attempting", "ctor_raised"}
    /\ (gpc = "attempting") => AllRaised
    /\ CallReturned =>
         LET n == Len(outcomes) IN
         IF \E i \in 1..n : outcomes[i] # "raise"
         THEN /\ outcomes[n] # "raise"
              /\ ret = outcomes[n]
              /\ \A i \in 1..(n - 1) : outcomes[i] = "raise"
              /\ Len(sleeps) = n - 1
         ELSE /\ ret = ""
              /\ n = (IF max_retries >= 0 THEN max_retries + 1 ELSE 0)

C2_Witness ==
    /\ CallReturned
    /\ max_retries = 3
    /\ outcomes = <<"raise", "raise", "text1">>
    /\ sleeps = <<1, 2>>
    /\ ret = "text1"

\* C3: when the bedrock client could not be built in __init__, the provider
\* of the instance is "openai" in every later state, and every attempt of
\* every generate call is sent to the openai provider.
C3_FallbackPermanent ==
    (setupFailed /\ gpc \in {"idle", "attempting"}) =>
        /\ provider = "openai"
        /\ client = "openai"
        /\ \A i \in 1..Len(dispatched) : dispatched[i] = "openai"

C3_Witness ==
    /\ setupFailed
    /\ DetectProvider(model_name) = "claude"
    /\ gpc = "idle"
    /\ calls = 2
    /\ Len(dispatched) >= 2
    /\ outcomes[1] = "raise"
    /\ \A i \in 1..Len(dispatched) : dispatched[i] = "openai"

\* C17: generate leaves provider, model_name and client as they are whether
\* it succeeds or fails; each generate call's attempt count starts at 0 and
\* the call makes at most its own max_retries + 1 attempts, whatever earlier
\* calls did.
C17_NoStateAcrossCalls ==
    [][/\ gpc \in {"idle", "attempting"} =>
             /\ provider' = provider
             /\ model_name' = model_name
             /\ client' = client
       /\ (gpc = "idle" /\ calls' + Len(outcomes') # calls + Len(outcomes)) =>
             /\ attempt' = 0
             /\ outcomes' = <<>>
             /\ sleeps' = <<>>
       /\ gpc' \in {"idle", "attempting"} =>
             /\ Len(outcomes') <= max_retries' + 1
             /\ attempt' <= Len(outcomes')]_vars

\* the second generate call used its whole budget after a first call that
\* failed at least twice
C17_Witness ==
    /\ CallReturned
    /\ calls = 2
    /\ max_retries >= 1
    /\ Len(outcomes) = max_retries + 1
    /\ AllRaised
    /\ totalAttempts >= Len(outcomes) + 2

----------------------------------------------------------------------------
(* Properties of generate_metrics, under SpecDiscovery *)

\* iterations x batchSize <= |validation set|
Precondition == num_iterations * batch_size <= Len(validation_data)

DiscoveryOver == dpc \in {"returned", "raised"}

\* C4: with iterations x batchSize <= |validation set|, for any responses and
\* any sampling choices, generate_metrics returns a list that is in strictly
\* ascending order (sorted, no duplicate entry).
C4_ReturnsSortedNoDuplicates ==
    (DiscoveryOver /\ Precondition) =>
        /\ dpc = "returned"
        /\ \A i \in 1..(Len(dresult) - 1) : Less(dresult[i], dresult[i + 1])

\* C5: with iterations x batchSize <= |validation set|, every round samples
\* exactly batchSize items and removes exactly those from the pool: after
\* round k the pool holds |validation set| - k x batchSize items, no item is
\* sampled in two rounds, and the run consumes iterations x batchSize items.
C5_PoolAccounting ==
    (dpc # "idle" /\ Precondition) =>
        LET k == Len(sampled)
            drawn == UNION {sampled[r] : r \in 1..k}
        IN /\ \A r \in 1..k : Cardinality(sampled[r]) = batch_size
           /\ \A r1, r2 \in 1..k : r1 # r2 => sampled[r1] \cap sampled[r2] = {}
           /\ Range(iter_valid_data) = (1..Len(validation_data)) \ drawn
           /\ Len(iter_valid_data) = Len(validation_data) - k * batch_size
           /\ (DiscoveryOver => Cardinality(drawn) = num_iterations * batch_size)

\* C10: with a non-empty validation set and iterations x batchSize <=
\* |validation set|, no response content makes generate_metrics or
\* generate_llmjudge_scores raise.
C10_NeverRaises ==
    (Len(validation_data) >= 1 /\ Precondition) =>
        /\ dpc # "raised"
        /\ jpc # "raised"

\* C12: a round whose response has no fenced block, does not decode, or decodes
\* to something that is not a list of strings leaves the accumulated metric
\* set as it was, and is followed by the next round after one gateway call.
C12_FailedRoundContributesNothing ==
    [][(round' = round + 1 /\ ~lastNames') =>
          /\ collected_metrics' = collected_metrics
          /\ dcalls' = dcalls + 1
          /\ dpc' = "sample"]_vars

\* C14: with iterations x batchSize <= |validation set|, generate_metrics
\* ends after exactly `iterations` rounds and `iterations` gateway calls
\* whatever the responses are, and returns the empty list when no round's
\* response had a fenced block that decoded.
C14_TerminatesAfterIterations ==
    (DiscoveryOver /\ Precondition) =>
        /\ dpc = "returned"
        /\ round = num_iterations
        /\ dcalls = num_iterations
        /\ (allFailed => dresult = <<>>)

\* C16: for any gateway responses, every entry of the list generate_metrics
\* returns is a name of the catalog PRE_DEFINED_METRICS.
C16_NamesFromCatalog ==
    dpc = "returned" =>
        \A i \in 1..Len(dresult) :
            dresult[i].t = "str" /\ dresult[i].v \in PRE_DEFINED_METRICS

----------------------------------------------------------------------------
(* Properties of generate_llmjudge_scores, under SpecJudge *)

JudgeOver == jpc \in {"returned", "raised"}

\* C6: when no response of the pass was recorded as valid, the mapping
\* returned has exactly the requested metrics as keys and the value 5 for
\* each, and no division error is raised; an empty validation set included.
C6_OptimisticDefault ==
    (JudgeOver /\ valid_update_cnt = 0) =>
        /\ jpc = "returned"
        /\ DOMAIN jresult = Range(jmetrics)
        /\ \A m \in Range(jmetrics) : jresult[m] = [num |-> 5, den |-> 1]

C6_Witness ==
    /\ jpc = "returned"
    /\ valid_update_cnt = 0
    /\ Len(validation_data) = 2
    /\ jmetrics = <<"Accuracy", "Clarity">>
    /\ mc_collected_scores["Accuracy"] > 0
    /\ jresult["Accuracy"] = [num |-> 5, den |-> 1]
    /\ jresult["Clarity"] = [num |-> 5, den |-> 1]

\* C7: when V >= 1 responses are valid and each gives a score for metric M,
\* the value returned for M is (the sum of those scores) / V: a skipped item
\* counts neither in the numerator nor in the denominator.
C7_MeanOfValidResponses ==
    (JudgeOver /\ validCnt >= 1) =>
        /\ jpc = "returned"
        /\ \A m \in Range(jmetrics) :
             validGave[m] = validCnt =>
                 jresult[m] = [num |-> validSum[m], den |-> validCnt]

\* C8: a response carrying keys that are not requested does not raise, adds
\* no key to the mapping returned and leaves every total and the counter what
\* they would be had it carried its requested keys only; the keys of the
\* mapping returned are exactly the requested metrics.
C8_ExtraKeysIgnored ==
    /\ jpc # "raised"
    /\ jpc \in {"loop", "returned"} =>
         /\ DOMAIN mc_collected_scores = Range(jmetrics)
         /\ mc_collected_scores = shScores
         /\ valid_update_cnt = shCnt
    /\ jpc = "returned" =>
         /\ DOMAIN jresult = Range(jmetrics)
         /\ jresult = Finalize(shScores, shCnt).profile

C8_Witness ==
    /\ jpc = "returned"
    /\ extraSeen
    /\ jmetrics = <<"Accuracy">>
    /\ valid_update_cnt = 2
    /\ jresult["Accuracy"] = [num |-> 6, den |-> 2]

\* C13: when handling an item raises an exception, part-way through adding
\* the response's scores included, every metric's running total and the
\* counter of valid responses are the same after the item as before it.
C13_SkippedItemNoPartialCredit ==
    [][(jpos' = jpos + 1 /\ lastRaised') =>
          /\ mc_collected_scores' = mc_collected_scores
          /\ valid_update_cnt' = valid_update_cnt]_vars

\* C11: when every score the responses carry is an integer from 1 to 5
\* (responses may omit requested metrics, and responses may be skipped), every
\* value of the mapping returned lies in [1, 5].
C11_ProfileWithinScale ==
    (jpc = "returned" /\ ~badScoreSeen) =>
        \A m \in DOMAIN jresult :
            /\ jresult[m].den > 0
            /\ 1 * jresult[m].den <= jresult[m].num
            /\ jresult[m].num <= 5 * jresult[m].den

----------------------------------------------------------------------------
(* Properties of OutputConstraintsGuidelines, under SpecOcg *)

RefSentences == [i \in 1..Len(validation_data) |-> count_sentences(validation_data[i])]
RefWords == [i \in 1..Len(validation_data) |-> count_words(validation_data[i])]

IsMin(x, s) == x \in Range(s) /\ \A y \in Range(s) : x <= y
IsMax(x, s) == x \in Range(s) /\ \A y \in Range(s) : x >= y
IsMean(x, s) == x.den > 0 /\ x.num * Len(s) = SumSeq(s) * x.den
IsFloorOfMean(q, s) == q * Len(s) <= SumSeq(s) /\ SumSeq(s) < (q + 1) * Len(s)

\* C9: for a non-empty list of reference outputs with sentence counts S and
\* word counts W, generate_output_constraints returns min(S), max(S),
\* sum(S)/|S|, min(W), max(W), sum(W)/|W| unrounded, and the sentence of
\* format_ocg_constraints carries min(S), max(S), min(W), max(W),
\* floor(sum(W)/|W|), floor(sum(S)/|S|) in that order; S = [2,4,6] and
\* W = [10,20,30] give 2, 6, 4, 10, 30, 20.
C9_ConstraintStatistics ==
    (opc \in {"returned", "formatted"} /\ validation_data # <<>>) =>
        /\ IsMin(constraints.sentences.min, RefSentences)
        /\ IsMax(constraints.sentences.max, RefSentences)
        /\ IsMean(constraints.sentences.avg, RefSentences)
        /\ IsMin(constraints.tokens.min, RefWords)
        /\ IsMax(constraints.tokens.max, RefWords)
        /\ IsMean(constraints.tokens.avg, RefWords)
        /\ (RefSentences = <<2, 4, 6>> /\ RefWords = <<10, 20, 30>>) =>
              /\ constraints.sentences = [min |-> 2, max |-> 6, avg |-> [num |-> 12, den |-> 3]]
              /\ constraints.tokens = [min |-> 10, max |-> 30, avg |-> [num |-> 60, den |-> 3]]
        /\ opc = "formatted" =>
              /\ Len(formatted) = 6
              /\ IsMin(formatted[1], RefSentences)
              /\ IsMax(formatted[2], RefSentences)
              /\ IsMin(formatted[3], RefWords)
              /\ IsMax(formatted[4], RefWords)
              /\ IsFloorOfMean(formatted[5], RefWords)
              /\ IsFloorOfMean(formatted[6], RefSentences)
              /\ (RefSentences = <<2, 4, 6>> /\ RefWords = <<10, 20, 30>>) =>
                    formatted = <<2, 6, 10, 30, 20, 4>>

C9_Witness ==
    /\ opc = "formatted"
    /\ sentence_counts = <<2, 4, 6>>
    /\ token_counts = <<10, 20, 30>>
    /\ constraints.sentences.avg = [num |-> 12, den |-> 3]
    /\ formatted = <<2, 6, 10, 30, 20, 4>>

----------------------------------------------------------------------------
(* Properties of get_guidelines, under Spec *)

\* C15: in MetricsGuidelines.get_guidelines no judge call is made and the
\* aggregator does not read the metric list before the last discovery round
\* has finished, the metric set does not change once aggregation has started,
\* and the final definitions call is made only after the aggregation pass
\* over all items has finished.
C15_DiscoveryBeforeAggregation ==
    [][/\ (jpc' # "idle" \/ jcalls' > 0) =>
             /\ dpc' = "returned"
             /\ round' = num_iterations'
             /\ jmetrics' = [i \in 1..Len(dresult') |-> KeyOf(dresult'[i])]
       /\ jpc # "idle" =>
             /\ collected_metrics' = collected_metrics
             /\ dresult' = dresult
       /\ pcalls' > pcalls =>
             /\ jpc = "returned"
             /\ jpos = Len(validation_data) + 1
             /\ jcalls = Len(validation_data) + 1]_vars

\* a call that ran two discovery rounds, judged two items and made the
\* definitions call
C15_Witness ==
    /\ target = "metrics"
    /\ ppc = "returned"
    /\ pcalls = 1
    /\ round = 2
    /\ Len(dresult) = 2
    /\ jpos = 3
    /\ valid_update_cnt >= 1

\* s and t hold the same items the same number of times
SameItems(s, t) ==
    /\ Len(s) = Len(t)
    /\ \A x \in Range(s) \cup Range(t) :
         Cardinality({i \in 1..Len(s) : s[i] = x}) = Cardinality({i \in 1..Len(t) : t[i] = x})

\* C18: generate_metrics leaves the caller's list as it was, contents and
\* order (it removes sampled items from its own copy only);
\* generate_llmjudge_scores changes at most the order of the caller's list.
C18_CallerListPreserved ==
    /\ jpc = "idle" => validation_data = orig_data
    /\ SameItems(validation_data, orig_data)

\* discovery took items out of its pool and the aggregator reordered the
\* caller's list
C18_Witness ==
    /\ dpc = "returned"
    /\ Len(iter_valid_data) < Len(orig_data)
    /\ jpc = "returned"
    /\ validation_data # orig_data

\* C19: called with no validation data or with an empty list, get_guidelines
\* of either class returns its default sentence; it does not raise, makes no
\* gateway call and runs no discovery, aggregation or statistics.
C19_DefaultWithoutData ==
    (arg_none \/ orig_data = <<>>) =>
        /\ ppc \in {"idle", "returned"}
        /\ ppc = "returned" =>
             presult = (IF target = "metrics" THEN DefaultMetricsGuideline
                        ELSE DefaultConstraintsGuideline)
        /\ dpc = "idle" /\ jpc = "idle" /\ opc = "idle"
        /\ dcalls = 0 /\ jcalls = 0 /\ pcalls = 0

C19_Witness ==
    /\ ~arg_none
    /\ orig_data = <<>>
    /\ target = "metrics"
    /\ ppc = "returned"
    /\ presult = DefaultMetricsGuideline

====
